---- MODULE Spec2Model ----
(***************************************************************************)
(* Model of the request-authentication gate (api/lib/authentication/       *)
(* middleware.go) and of the user provisioning saga (RetrieveUser.Execute) *)
(* of the settle repository.                                               *)
(*                                                                         *)
(* SpecGate runs the authentication middleware over a shared Replay        *)
(* Ledger; SpecSaga runs RetrieveUser.Execute calls over the register and  *)
(* the mint store.  Both share one Init.                                   *)
(***************************************************************************)
EXTENDS Integers, Sequences, FiniteSets, TLC

VARIABLES
    now,      \* the wall clock read by CheckChallenge
    ledger,   \* the Replay Ledger: the set of stored AuthenticationRecords
    req,      \* per request: inputs, position in ServeHTTPC, context status, outcome
    regStore, \* committed register store: username -> user record
    mintStore,\* committed mint store: set of mint users
    call,     \* per RetrieveUser.Execute call: inputs, position, locals, open transactions
    hist,     \* history: what the saga calls have committed so far
    amount,   \* an Amount held in memory
    column,   \* the driver value of the amount column, or NULL
    scanned   \* the outcome of Amount.Scan on the column, or NULL

vars == <<now, ledger, req, regStore, mintStore, call, hist, amount, column, scanned>>
gateVars == <<now, ledger, req>>
sagaVars == <<regStore, mintStore, call, hist>>
amountVars == <<amount, column, scanned>>

----------------------------------------------------------------------------
(* Bounds *)

NumReqs == 2
MaxTime == 2
NumCalls == 3
WordBase == 4
MaxWords == 2

Reqs == 1..NumReqs
Calls == 1..NumCalls

\* The nil pointer of the Go code.
NULL == [nil |-> TRUE]

----------------------------------------------------------------------------
(* Authentication gate: values *)

AutStSucceeded == "succeeded"
AutStSkipped == "skipped"
AutStFailed == "failed"

\* Paths are sequences of path segments: /challenges is <<"challenges">>.
Usernames == {"alice", "bob"}

Routes ==
    { <<"GET", <<"challenges">>>>,
      <<"POST", <<"challenges">>>>,
      <<"GET", <<"users", "alice">>>> }

\* "^/challenges$"
MatchChallenges(path) == path = <<"challenges">>

\* "^/users/[a-zA-Z0-9_]+$"
MatchUser(path) == Len(path) = 2 /\ path[1] = "users" /\ path[2] \in Usernames

SkipList ==
    << [Method |-> "GET", Pattern |-> "challenges"],
       [Method |-> "GET", Pattern |-> "user"] >>

MatchString(pattern, path) ==
    IF pattern = "challenges" THEN MatchChallenges(path) ELSE MatchUser(path)

\* The loop of ServeHTTPC over SkipList.
SkipEligible(method, path) ==
    \E i \in 1..Len(SkipList) :
        SkipList[i].Method = method /\ MatchString(SkipList[i].Pattern, path)

Addresses == {"A", "B"}

\* Basic-auth credentials of a request: the claimed address and the key that
\* signed the challenge.
Credentials == {<<"A", "A">>, <<"B", "B">>, <<"A", "B">>}

\* A challenge carries its issuance time; "bad" does not parse.
Challenges == {"c1", "c2", "bad"}
WellFormed(c) == c \in {"c1", "c2"}
IssuedAt(c) == 0
ChallengeValidity == 1

\* A signature names the key that made it and the challenge it covers.
Sign(address, challenge) == <<address, challenge>>

NoError == [code |-> "", http |-> 0]
Err(code, http) == [code |-> code, http |-> http]

\* CheckChallenge: structure, then freshness against the clock.
CheckChallenge(challenge, t) ==
    IF ~WellFormed(challenge) THEN Err("challenge_invalid", 400)
    ELSE IF t - IssuedAt(challenge) > ChallengeValidity
         THEN Err("challenge_expired", 400)
         ELSE NoError

\* VerifyChallenge: the signature is the claimed address's over the challenge.
VerifyChallenge(challenge, address, signature) ==
    IF signature = Sign(address, challenge) THEN NoError
    ELSE Err("signature_invalid", 400)

\* model.LoadAuthenticationByChallenge: the record or NULL.
LoadAuthenticationByChallenge(challenge) ==
    IF \E a \in ledger : a.challenge = challenge
    THEN CHOOSE a \in ledger : a.challenge = challenge
    ELSE NULL

StoreError == Err("internal_error", 500)
DuplicateChallenge == Err("unique_constraint_violation", 500)

NewAuthentication(method, url, challenge, address, signature) ==
    [challenge |-> challenge, method |-> method, url |-> url,
     address |-> address, signature |-> signature]

Status(status, address) == [Status |-> status, Address |-> address]

IdleReq ==
    [pc |-> "idle", method |-> "", path |-> <<>>, challenge |-> "",
     address |-> "", signature |-> <<>>, skip |-> FALSE,
     withStatus |-> NULL, error |-> NoError, handled |-> FALSE,
     responded |-> FALSE, log |-> {}, lookup |-> "none", insert |-> "none",
     replay |-> FALSE]

----------------------------------------------------------------------------
(* Provisioning saga: values *)

UsrStUnverified == "unverified"
UsrStVerified == "verified"

Secrets == {"S1", "S2"}

\* The mint this register provisions users on (register.GetMint).
Mint == "mint.example"

\* A nil *string, and the tokens the mint store hands out: one per creating
\* call, and one for a user that another flow created on the mint.
NilToken == <<>>
MintTokenOf(p) == <<"user", p>>
ForeignMintUser ==
    [Token |-> <<"user", 0>>, Username |-> "alice", Password |-> "old"]

RegisteredUser ==
    [Token |-> "reg_alice", Username |-> "alice", Secret |-> "S1",
     Password |-> "pw", Status |-> UsrStUnverified, MintToken |-> NilToken]

UserNotFound == Err("user_not_found", 400)
NoResp == [http |-> 0, code |-> "", address |-> <<>>, password |-> ""]

IdleCall ==
    [pc |-> "idle", Username |-> "", Secret |-> "",
     user |-> NULL, u |-> NULL,
     regTx |-> NULL, mintTx |-> NULL,
     branch |-> "none", mintCommitted |-> FALSE,
     pre |-> NULL, resp |-> NoResp, cause |-> ""]

InFlight(c) == c.pc \notin {"idle", "done", "failed", "crashed", "fatal"}

----------------------------------------------------------------------------

Init ==
    /\ now = 0
    /\ ledger = {}
    /\ req = [r \in Reqs |-> IdleReq]
    /\ regStore = [n \in {"alice"} |-> RegisteredUser]
    /\ mintStore \in {{}, {ForeignMintUser}}
    /\ call = [p \in Calls |-> IdleCall]
    /\ hist = [sagaDone |-> {}, mintCommits |-> {}]
    /\ amount = [neg |-> FALSE, abs |-> <<>>]
    /\ column = NULL
    /\ scanned = NULL

\* One step of the clock.
Tick ==
    /\ now < MaxTime
    /\ now' = now + 1
    /\ UNCHANGED <<ledger, req, sagaVars, amountVars>>

\* Every log line of the gate starts with status and livemode.
LogFull == {"status", "livemode", "address", "challenge", "signature"}
LogShort == {"status", "livemode"}

\* The failedAuth closure of ServeHTTPC: fall back to the skip list, or log
\* and return the error.
failedAuthNeverSkips(q, err) ==
    [q EXCEPT !.pc = "done",
              !.withStatus = Status(AutStFailed, ""),
              !.log = LogFull,
              !.error = err,
              !.responded = TRUE]
failedAuthSkipKeepsAddress(q, err) ==
    IF q.skip
    THEN [q EXCEPT !.pc = "done",
                   !.withStatus = Status(AutStSkipped, q.address),
                   !.log = LogShort,
                   !.handled = TRUE]
    ELSE [q EXCEPT !.pc = "done",
                   !.withStatus = Status(AutStFailed, ""),
                   !.log = LogFull,
                   !.error = err,
                   !.responded = TRUE]
failedAuth(q, err) ==
    IF q.skip
    THEN [q EXCEPT !.pc = "done",
                   !.withStatus = Status(AutStSkipped, ""),
                   !.log = LogShort,
                   !.handled = TRUE]
    ELSE [q EXCEPT !.pc = "done",
                   !.withStatus = Status(AutStFailed, ""),
                   !.log = LogFull,
                   !.error = err,
                   !.responded = TRUE]

\* ServeHTTPC up to the first store access: the initial status, the inputs
\* taken from the request, the skip flag.
Accept(method, path, challenge, address, signature) ==
    [IdleReq EXCEPT !.pc = "check",
                    !.method = method, !.path = path,
                    !.challenge = challenge, !.address = address,
                    !.signature = signature,
                    !.skip = SkipEligible(method, path),
                    !.withStatus = Status(AutStFailed, "")]

\* CheckChallenge, then VerifyChallenge, each falling to failedAuth.
ServeChecksSkipsVerify(q, t) ==
    LET e1 == CheckChallenge(q.challenge, t)
    IN  IF e1 # NoError THEN failedAuth(q, e1)
        ELSE [q EXCEPT !.pc = "lookup"]
ServeChecks(q, t) ==
    LET e1 == CheckChallenge(q.challenge, t)
        e2 == VerifyChallenge(q.challenge, q.address, q.signature)
    IN  IF e1 # NoError THEN failedAuth(q, e1)
        ELSE IF e2 # NoError THEN failedAuth(q, e2)
        ELSE [q EXCEPT !.pc = "lookup"]

\* The lookup of the challenge in the ledger and its two failure branches.
ChallengeAlreadyUsed == Err("challenge_already_used", 400)

ServeLookupIgnoresFound(q, auth, err) ==
    IF err # NoError
    THEN failedAuth([q EXCEPT !.lookup = "error"], err)
    ELSE [q EXCEPT !.pc = "create",
                   !.lookup = IF auth # NULL THEN "found" ELSE "absent"]
ServeLookup(q, auth, err) ==
    IF err # NoError
    THEN failedAuth([q EXCEPT !.lookup = "error"], err)
    ELSE IF auth # NULL
         THEN failedAuth([q EXCEPT !.lookup = "found"], ChallengeAlreadyUsed)
         ELSE [q EXCEPT !.pc = "create", !.lookup = "absent"]

\* The insert's outcome and the success branch.
ServeCreate(q, err) ==
    IF err # NoError
    THEN failedAuth([q EXCEPT !.insert =
                        IF err = DuplicateChallenge THEN "duplicate" ELSE "error"],
                    err)
    ELSE [q EXCEPT !.pc = "done",
                   !.insert = "ok",
                   !.withStatus = Status(AutStSucceeded, q.address),
                   !.log = LogFull,
                   !.handled = TRUE]

\* model.CreateAuthentication under the uniqueness constraint on challenge:
\* the errors it can return in the current ledger.
CreateAuthenticationUnconstrained(challenge) == {NoError, StoreError}
CreateAuthenticationErrors(challenge) ==
    IF \E a \in ledger : a.challenge = challenge
    THEN {DuplicateChallenge}
    ELSE {NoError, StoreError}

\* A request arrives; requests are numbered in order of arrival.  replay
\* notes whether the ledger already held the challenge at that moment.
Receive(r) ==
    /\ req[r].pc = "idle"
    /\ \A s \in Reqs : s < r => req[s].pc # "idle"
    /\ \E route \in Routes, c \in Challenges, cred \in Credentials :
          req' = [req EXCEPT ![r] =
                     [ServeChecks(Accept(route[1], route[2], c, cred[1],
                                         Sign(cred[2], c)), now)
                         EXCEPT !.replay = (LoadAuthenticationByChallenge(c) # NULL)]]
    /\ UNCHANGED <<now, ledger, sagaVars, amountVars>>

Lookup(r) ==
    /\ req[r].pc = "lookup"
    /\ \E err \in {NoError, StoreError} :
          req' = [req EXCEPT ![r] =
                     ServeLookup(req[r],
                                 LoadAuthenticationByChallenge(req[r].challenge), err)]
    /\ UNCHANGED <<now, ledger, sagaVars, amountVars>>

Create(r) ==
    /\ req[r].pc = "create"
    /\ \E err \in CreateAuthenticationErrors(req[r].challenge) :
          /\ req' = [req EXCEPT ![r] = ServeCreate(req[r], err)]
          /\ ledger' = IF err = NoError
                       THEN ledger \cup
                            {NewAuthentication(req[r].method, req[r].path,
                                               req[r].challenge, req[r].address,
                                               req[r].signature)}
                       ELSE ledger
    /\ UNCHANGED <<now, sagaVars, amountVars>>

----------------------------------------------------------------------------
(* Provisioning saga: RetrieveUser.Execute *)

\* model.LoadUserByUsername on the register store, mintmodel.LoadUserByUsername
\* on the mint store: the committed row or nil.
LoadRegUser(username) ==
    IF username \in DOMAIN regStore THEN regStore[username] ELSE NULL

MintUsersNamed(username) == {m \in mintStore : m.Username = username}

LoadMintUser(username) ==
    IF MintUsersNamed(username) # {}
    THEN CHOOSE m \in MintUsersNamed(username) : TRUE
    ELSE NULL

\* A row written in an open transaction stays locked until that transaction
\* ends: a write of another transaction to the same row waits.
RegLockFree(p) ==
    \A q \in Calls \ {p} :
        IF call[q].regTx = NULL THEN TRUE
        ELSE call[q].regTx.Username # call[p].Username
MintLockFree(p) ==
    \A q \in Calls \ {p} :
        IF call[q].mintTx = NULL THEN TRUE
        ELSE call[q].mintTx.Username # call[p].Username

\* An error return: the deferred LoggedRollback of both transactions runs.
ReturnErrorNoRollback(c, err) ==
    [c EXCEPT !.pc = "failed",
              !.resp = [NoResp EXCEPT !.http = err.http, !.code = err.code]]
ReturnError(c, err) ==
    [c EXCEPT !.pc = "failed",
              !.regTx = NULL, !.mintTx = NULL,
              !.resp = [NoResp EXCEPT !.http = err.http, !.code = err.code]]

\* The username and secret pair names an existing user.
SecretIgnored(user, secret) == user # NULL
SecretMatches(user, secret) == ~(user = NULL \/ user.Secret # secret)

\* Load of the register user and the user_not_found check.
Retrieve(c, user, err) ==
    IF err # NoError THEN ReturnError(c, err)
    ELSE IF ~SecretMatches(user, c.Secret) THEN ReturnError(c, UserNotFound)
    ELSE [c EXCEPT !.pc = "verify", !.user = user]

\* The status update of an unverified user, saved in the register transaction.
MarkVerifiedUnsaved(c, err) ==
    IF err # NoError THEN ReturnError(c, err)
    ELSE [c EXCEPT !.pc = "mint", !.user.Status = UsrStVerified]
MarkVerifiedSavedOnly(c, err) ==
    IF err # NoError THEN ReturnError(c, err)
    ELSE [c EXCEPT !.pc = "mint",
                   !.regTx = [c.user EXCEPT !.Status = UsrStVerified]]
MarkVerified(c, err) ==
    IF err # NoError THEN ReturnError(c, err)
    ELSE [c EXCEPT !.pc = "mint",
                   !.user.Status = UsrStVerified,
                   !.regTx = [c.user EXCEPT !.Status = UsrStVerified]]

\* The user was not yet created on the mint.
NeedsMint(user) == user.MintToken = NilToken

\* Load of the mint user inside the mint transaction.
MintLoadedForgetsUser(c, u, err) ==
    IF err # NoError THEN ReturnError(c, err)
    ELSE [c EXCEPT !.pc = "mintwrite", !.u = NULL]
MintLoaded(c, u, err) ==
    IF err # NoError THEN ReturnError(c, err)
    ELSE [c EXCEPT !.pc = "mintwrite", !.u = u]

\* The update branch: the mint user takes the register password.
ReconcileCreatesAgain(c, err) ==
    IF err # NoError THEN ReturnError(c, err)
    ELSE [c EXCEPT !.pc = "savetoken",
                   !.branch = "update",
                   !.u = [Token |-> <<"user", -1>>,
                          Username |-> c.user.Username,
                          Password |-> c.user.Password],
                   !.mintTx = [Token |-> <<"user", -1>>,
                               Username |-> c.user.Username,
                               Password |-> c.user.Password]]
Reconcile(c, err) ==
    IF err # NoError THEN ReturnError(c, err)
    ELSE [c EXCEPT !.pc = "savetoken",
                   !.branch = "update",
                   !.u.Password = c.user.Password,
                   !.mintTx = [c.u EXCEPT !.Password = c.user.Password]]

\* The create branch: mintmodel.CreateUser with the register username and
\* password.
NewMintUser(token, username, password) ==
    [Token |-> token, Username |-> username, Password |-> password]

CreatedEmptyPassword(c, token) ==
    [c EXCEPT !.pc = "savetoken",
              !.branch = "create",
              !.u = NewMintUser(token, c.user.Username, ""),
              !.mintTx = NewMintUser(token, c.user.Username, "")]
Created(c, token) ==
    [c EXCEPT !.pc = "savetoken",
              !.branch = "create",
              !.u = NewMintUser(token, c.user.Username, c.user.Password),
              !.mintTx = NewMintUser(token, c.user.Username, c.user.Password)]

\* The mint token written back onto the register user, saved in the register
\* transaction.
TokenSavedSkipsMintCommit(c, err) ==
    IF err # NoError THEN ReturnError(c, err)
    ELSE [c EXCEPT !.pc = "commitreg",
                   !.user.MintToken = c.u.Token,
                   !.regTx = [c.user EXCEPT !.MintToken = c.u.Token]]
TokenDropped(c, err) ==
    IF err # NoError THEN ReturnError(c, err)
    ELSE [c EXCEPT !.pc = "commitmint", !.regTx = c.user]
TokenSaved(c, err) ==
    IF err # NoError THEN ReturnError(c, err)
    ELSE [c EXCEPT !.pc = "commitmint",
                   !.user.MintToken = c.u.Token,
                   !.regTx = [c.user EXCEPT !.MintToken = c.u.Token]]

\* The response of a call that ran to completion.
Credentials201(user) ==
    [http |-> 201, code |-> "",
     address |-> <<user.Username, "@", Mint>>,
     password |-> user.Password]

\* db.Commit: the rows written in the transaction become the committed rows.
CommitMintRow(row) == {m \in mintStore : m.Token # row.Token} \cup {row}
CommitRegRow(row) == [regStore EXCEPT ![row.Username] = row]

\* The process stops: every call in flight ends without a response and the
\* store rolls back the transactions they held.
Stopped(p, how) ==
    [q \in Calls |->
        IF q = p
        THEN [call[q] EXCEPT !.pc = how, !.regTx = NULL, !.mintTx = NULL]
        ELSE IF InFlight(call[q])
             THEN [call[q] EXCEPT !.pc = "crashed", !.regTx = NULL, !.mintTx = NULL]
             ELSE call[q]]

\* What the call finds committed when it starts, and whether an earlier call
\* has already committed its mint transaction for this username.
Snapshot(username) ==
    [status |-> IF username \in DOMAIN regStore
                THEN regStore[username].Status ELSE "",
     mintToken |-> IF username \in DOMAIN regStore
                   THEN regStore[username].MintToken ELSE NilToken,
     mintUsers |-> MintUsersNamed(username),
     minted |-> username \in hist.mintCommits]

ExecBegin(p) ==
    /\ call[p].pc = "idle"
    /\ \A q \in Calls : q < p => call[q].pc # "idle"
    /\ \E username \in Usernames, secret \in Secrets, err \in {NoError, StoreError} :
          call' = [call EXCEPT ![p] =
                      Retrieve([IdleCall EXCEPT !.Username = username,
                                                !.Secret = secret,
                                                !.pre = Snapshot(username)],
                               LoadRegUser(username), err)]
    /\ UNCHANGED <<gateVars, amountVars, regStore, mintStore, hist>>

ExecVerify(p) ==
    /\ call[p].pc = "verify"
    /\ IF call[p].user.Status # UsrStVerified
       THEN /\ RegLockFree(p)
            /\ \E err \in {NoError, StoreError} :
                  call' = [call EXCEPT ![p] = MarkVerified(call[p], err)]
       ELSE call' = [call EXCEPT ![p].pc = "mint"]
    /\ UNCHANGED <<gateVars, amountVars, regStore, mintStore, hist>>

ExecMintLoad(p) ==
    /\ call[p].pc = "mint"
    /\ IF NeedsMint(call[p].user)
       THEN \E err \in {NoError, StoreError} :
               call' = [call EXCEPT ![p] =
                           MintLoaded(call[p], LoadMintUser(call[p].user.Username), err)]
       ELSE call' = [call EXCEPT ![p].pc = "commitreg"]
    /\ UNCHANGED <<gateVars, amountVars, regStore, mintStore, hist>>

ExecMintUpdate(p) ==
    /\ call[p].pc = "mintwrite"
    /\ call[p].u # NULL
    /\ MintLockFree(p)
    /\ \E err \in {NoError, StoreError} :
          call' = [call EXCEPT ![p] = Reconcile(call[p], err)]
    /\ UNCHANGED <<gateVars, amountVars, regStore, mintStore, hist>>

\* mintmodel.CreateUser under the uniqueness constraint on the username.
DuplicateUsername == Err("username_taken", 500)

CreateUserErrors(username) ==
    IF MintUsersNamed(username) # {}
    THEN {DuplicateUsername, StoreError}
    ELSE {NoError, StoreError}

\* A failed creation: log.Fatal ends the process; cause keeps the error that
\* was logged.
CreateFailedReturnsError(p, err) ==
    [call EXCEPT ![p] = ReturnError(call[p], err)]
CreateFailed(p, err) ==
    [Stopped(p, "fatal") EXCEPT ![p].cause = err.code]

ExecMintCreate(p) ==
    /\ call[p].pc = "mintwrite"
    /\ call[p].u = NULL
    /\ MintLockFree(p)
    /\ \E err \in CreateUserErrors(call[p].user.Username) :
          IF err # NoError
          THEN call' = CreateFailed(p, err)
          ELSE call' = [call EXCEPT ![p] = Created(call[p], MintTokenOf(p))]
    /\ UNCHANGED <<gateVars, amountVars, regStore, mintStore, hist>>

ExecSaveToken(p) ==
    /\ call[p].pc = "savetoken"
    /\ RegLockFree(p)
    /\ \E err \in {NoError, StoreError} :
          call' = [call EXCEPT ![p] = TokenSaved(call[p], err)]
    /\ UNCHANGED <<gateVars, amountVars, regStore, mintStore, hist>>

ExecCommitMint(p) ==
    /\ call[p].pc = "commitmint"
    /\ mintStore' = CommitMintRow(call[p].mintTx)
    /\ call' = [call EXCEPT ![p].pc = "commitreg",
                            ![p].mintTx = NULL,
                            ![p].mintCommitted = TRUE]
    /\ hist' = [hist EXCEPT !.mintCommits = @ \cup {call[p].Username}]
    /\ UNCHANGED <<gateVars, amountVars, regStore>>

ExecCommitReg(p) ==
    /\ call[p].pc = "commitreg"
    /\ regStore' = IF call[p].regTx # NULL
                   THEN CommitRegRow(call[p].regTx) ELSE regStore
    /\ call' = [call EXCEPT ![p].pc = "done",
                            ![p].regTx = NULL,
                            ![p].resp = Credentials201(call[p].user)]
    /\ hist' = [hist EXCEPT !.sagaDone =
                    IF call[p].mintCommitted THEN @ \cup {call[p].Username} ELSE @]
    /\ UNCHANGED <<gateVars, amountVars, mintStore>>

\* The process dies at any point of a call.
Crash(p) ==
    /\ InFlight(call[p])
    /\ call' = Stopped(p, "crashed")
    /\ UNCHANGED <<gateVars, amountVars, regStore, mintStore, hist>>

NextSaga ==
    \/ \E p \in Calls : ExecBegin(p)
    \/ \E p \in Calls : ExecVerify(p)
    \/ \E p \in Calls : ExecMintLoad(p)
    \/ \E p \in Calls : ExecMintUpdate(p)
    \/ \E p \in Calls : ExecMintCreate(p)
    \/ \E p \in Calls : ExecSaveToken(p)
    \/ \E p \in Calls : ExecCommitMint(p)
    \/ \E p \in Calls : ExecCommitReg(p)
    \/ \E p \in Calls : Crash(p)

SpecSaga == Init /\ [][NextSaga]_vars

----------------------------------------------------------------------------

NextGate ==
    \/ Tick
    \/ \E r \in Reqs : Receive(r)
    \/ \E r \in Reqs : Lookup(r)
    \/ \E r \in Reqs : Create(r)

\* The gate never touches the stores of the saga.
InitGate == Init /\ mintStore = {}

SpecGate == InitGate /\ [][NextGate]_vars

----------------------------------------------------------------------------
(* Properties of the authentication gate, checked under SpecGate *)

Ended(r) == req[r].pc = "done"
Outcome(r) == req[r].withStatus.Status
PassedChecks(r) == req[r].lookup # "none"
StoreWorked(r) == req[r].lookup # "error" /\ req[r].insert # "error"

\* C1 (as claimed): of two requests that present the same challenge with a
\* valid structure and a valid signature, and that the store served without
\* an I/O error, exactly one ends Succeeded and the other ends Failed with
\* challenge_already_used.
C1_ExactlyOneSucceededOtherDuplicate ==
    \A r, s \in Reqs :
        ( /\ r # s
          /\ Ended(r) /\ Ended(s)
          /\ req[r].challenge = req[s].challenge
          /\ PassedChecks(r) /\ PassedChecks(s)
          /\ StoreWorked(r) /\ StoreWorked(s) )
        => \/ /\ Outcome(r) = AutStSucceeded
              /\ Outcome(s) = AutStFailed
              /\ req[s].error = ChallengeAlreadyUsed
           \/ /\ Outcome(s) = AutStSucceeded
              /\ Outcome(r) = AutStFailed
              /\ req[r].error = ChallengeAlreadyUsed

\* C2 (as claimed): on a route outside the skip list, every request that
\* presents a challenge already redeemed and recorded ends Failed with HTTP
\* 400 challenge_already_used and does not reach the downstream handler.
C2_EveryLaterRequestAlreadyUsed ==
    \A r \in Reqs :
        (Ended(r) /\ req[r].replay /\ ~req[r].skip)
        => /\ Outcome(r) = AutStFailed
           /\ req[r].error = ChallengeAlreadyUsed
           /\ ~req[r].handled

\* C2 (amended): on a route outside the skip list, every request that
\* presents a challenge already redeemed and recorded ends Failed without
\* reaching the downstream handler; it carries HTTP 400
\* challenge_already_used when its challenge check and signature
\* verification pass and the ledger lookup does not fail, and the error of
\* the failing step otherwise.
C2_ReplayFailsOffSkipList ==
    \A r \in Reqs :
        (Ended(r) /\ req[r].replay /\ ~req[r].skip)
        => /\ Outcome(r) = AutStFailed
           /\ req[r].withStatus.Address = ""
           /\ ~req[r].handled
           /\ req[r].responded
           /\ req[r].insert = "none"
           /\ (PassedChecks(r) /\ req[r].lookup # "error")
                 => (req[r].lookup = "found" /\ req[r].error = ChallengeAlreadyUsed)
           /\ ~PassedChecks(r)
                 => req[r].error.code \in
                       {"challenge_invalid", "challenge_expired", "signature_invalid"}
           /\ req[r].lookup = "error" => req[r].error = StoreError

C2_Witness ==
    \E r, s \in Reqs :
        /\ r # s
        /\ Ended(r) /\ Outcome(r) = AutStSucceeded
        /\ Ended(s) /\ req[s].replay /\ ~req[s].skip
        /\ req[s].challenge = req[r].challenge
        /\ req[s].lookup = "found"
        /\ req[s].error.http = 400

\* C3 (as claimed): a request whose ledger lookup finds a record ends Failed
\* with challenge_already_used and never reaches the downstream handler,
\* also on a route of the skip list.
C3_FoundAlwaysFails ==
    \A r \in Reqs :
        (Ended(r) /\ req[r].lookup = "found")
        => /\ Outcome(r) = AutStFailed
           /\ req[r].error = ChallengeAlreadyUsed
           /\ ~req[r].handled

\* C4 (as claimed): an insert that fails on the uniqueness of the challenge
\* ends the request Failed with challenge_already_used, on every route; any
\* other insert failure follows the skip/fail branching.
C4_DuplicateInsertAlwaysFails ==
    \A r \in Reqs :
        Ended(r)
        => /\ req[r].insert = "duplicate"
                 => /\ Outcome(r) = AutStFailed
                    /\ req[r].error = ChallengeAlreadyUsed
                    /\ ~req[r].handled
           /\ req[r].insert = "error"
                 => Outcome(r) = (IF req[r].skip THEN AutStSkipped ELSE AutStFailed)

\* C5: a request that fails the challenge check, the signature verification
\* or the ledger lookup (store error) ends Skipped with an empty address and
\* reaches the downstream handler when its route is on the skip list, and
\* otherwise ends Failed with the error as the response and does not reach
\* the handler.
C5_SkipOrFail ==
    \A r \in Reqs :
        (Ended(r) /\ (~PassedChecks(r) \/ req[r].lookup = "error"))
        => IF SkipEligible(req[r].method, req[r].path)
           THEN /\ req[r].withStatus = Status(AutStSkipped, "")
                /\ req[r].handled
                /\ ~req[r].responded
           ELSE /\ req[r].withStatus = Status(AutStFailed, "")
                /\ ~req[r].handled
                /\ req[r].responded
                /\ IF req[r].lookup = "error"
                   THEN req[r].error = StoreError
                   ELSE req[r].error.code \in
                           {"challenge_invalid", "challenge_expired",
                            "signature_invalid"}

C5_Witness ==
    \E r, s \in Reqs :
        /\ Ended(r) /\ req[r].skip /\ req[r].lookup = "error"
        /\ Outcome(r) = AutStSkipped /\ req[r].handled
        /\ Ended(s) /\ ~req[s].skip /\ ~PassedChecks(s)
        /\ req[s].error.code = "challenge_expired"
        /\ Outcome(s) = AutStFailed /\ req[s].responded

----------------------------------------------------------------------------
(* Properties of the provisioning saga, checked under SpecSaga *)

RanToCompletion(p) == call[p].pc = "done"
TokensNamed(username) == {m.Token : m \in MintUsersNamed(username)}

\* C6: a call that runs to completion for a user it found Unverified, with
\* no MintToken and no mint user of that name, leaves the register user
\* Verified, exactly one mint user of that name carrying the register
\* password, the register MintToken equal to that mint user's token, and
\* returns 201 with the address username@mint.
C6_FirstRetrievalProvisions ==
    \A p \in Calls :
        ( /\ RanToCompletion(p)
          /\ call[p].pre.status = UsrStUnverified
          /\ call[p].pre.mintToken = NilToken
          /\ call[p].pre.mintUsers = {} )
        => LET n == call[p].Username IN
           /\ regStore[n].Status = UsrStVerified
           /\ Cardinality(MintUsersNamed(n)) = 1
           /\ \A m \in MintUsersNamed(n) :
                 /\ m.Password = regStore[n].Password
                 /\ regStore[n].MintToken = m.Token
           /\ call[p].resp.http = 201
           /\ call[p].resp.address = <<n, "@", Mint>>
           /\ call[p].resp.password = regStore[n].Password

C6_Witness ==
    \E p \in Calls :
        /\ RanToCompletion(p)
        /\ call[p].pre.status = UsrStUnverified
        /\ call[p].pre.mintToken = NilToken
        /\ call[p].pre.mintUsers = {}
        /\ call[p].branch = "create"
        /\ regStore[call[p].Username].MintToken = MintTokenOf(p)

\* The username is in the committed register store with this secret.
PairRegistered(username, secret) ==
    IF username \in DOMAIN regStore
    THEN regStore[username].Secret = secret
    ELSE FALSE

\* C7: a call whose username is not in the register store, or whose secret
\* differs from the stored one, ends in its first step with user_not_found
\* and HTTP 400 (or with the store's error when the load itself fails), and
\* that step changes no committed row of either store and leaves no
\* transaction open.
C7_WrongPairChangesNothing ==
    [][\A p \in Calls :
          ( /\ call[p].pc = "idle"
            /\ call'[p].pc # "idle"
            /\ ~PairRegistered(call'[p].Username, call'[p].Secret) )
          => /\ call'[p].pc = "failed"
             /\ \/ call'[p].resp = [NoResp EXCEPT !.http = 400,
                                                  !.code = "user_not_found"]
                \/ call'[p].resp = [NoResp EXCEPT !.http = StoreError.http,
                                                  !.code = StoreError.code]
             /\ call'[p].regTx = NULL
             /\ call'[p].mintTx = NULL
             /\ regStore' = regStore
             /\ mintStore' = mintStore]_vars

C7_Witness ==
    \E p, q \in Calls :
        /\ call[p].pc = "failed"
        /\ call[p].Username = "alice" /\ call[p].Secret = "S2"
        /\ call[p].resp.code = "user_not_found" /\ call[p].resp.http = 400
        /\ call[q].pc = "failed"
        /\ call[q].Username = "bob"
        /\ call[q].resp.code = "user_not_found"

\* The commits of a call that started after an earlier call had committed its
\* mint transaction for the same username.
LaterCommitsMint(p) ==
    /\ call[p].pc = "commitmint" /\ call'[p].pc = "commitreg"
    /\ call[p].pre.minted
LaterCommitsReg(p) ==
    /\ call[p].pc = "commitreg" /\ call'[p].pc = "done"
    /\ call[p].pre.minted

\* C8 (as claimed): a call made after an earlier call completed the mint
\* step for the user creates no second mint user of that name and leaves the
\* register user's MintToken unchanged.
C8_SecondCallLeavesTokenUnchanged ==
    [][\A p \in Calls :
          /\ LaterCommitsMint(p)
                => TokensNamed(call[p].Username)' = TokensNamed(call[p].Username)
          /\ LaterCommitsReg(p)
                => regStore'[call[p].Username].MintToken
                      = regStore[call[p].Username].MintToken]_vars

\* C8 (amended): a call made after an earlier call completed the mint step
\* for the user never takes the create branch and never creates a second
\* mint user of that name; it leaves a MintToken that is already set
\* unchanged, and when the MintToken is still unset (the earlier call
\* stopped before its register commit) it sets it to the token of the
\* existing mint user.
C8_SecondCallReconciles ==
    [][\A p \in Calls :
          /\ (call'[p].pre # NULL /\ call'[p].pre.minted)
                => /\ call'[p].branch # "create"
                   /\ call'[p].pc # "fatal"
          /\ LaterCommitsMint(p)
                => /\ TokensNamed(call[p].Username)' = TokensNamed(call[p].Username)
                   /\ Cardinality(MintUsersNamed(call[p].Username)') = 1
          /\ LaterCommitsReg(p)
                => LET n == call[p].Username IN
                   IF regStore[n].MintToken # NilToken
                   THEN regStore'[n].MintToken = regStore[n].MintToken
                   ELSE TokensNamed(n) = {regStore'[n].MintToken}]_vars

C8_Witness ==
    \E p, q \in Calls :
        /\ RanToCompletion(p) /\ call[p].pre.minted
        /\ call[p].pre.mintToken = NilToken /\ call[p].branch = "update"
        /\ RanToCompletion(q) /\ call[q].pre.minted
        /\ call[q].pre.mintToken # NilToken /\ call[q].branch = "none"

\* The call died after its mint commit and before its register commit.
CrashedBetweenCommits(p) == call[p].pc = "crashed" /\ call[p].mintCommitted

\* C9: a crash between the mint commit and the register commit leaves the
\* mint user in place and, unless another call completed, the register user
\* without MintToken; a call that then runs to completion takes the update
\* branch and ends with the register user Verified and its MintToken the
\* token of the mint user it found.
C9_CrashThenReconcile ==
    /\ \A q \in Calls :
          CrashedBetweenCommits(q)
          => LET n == call[q].Username IN
             /\ MintUsersNamed(n) # {}
             /\ n \notin hist.sagaDone
                   => /\ regStore[n].MintToken = NilToken
                      /\ regStore[n].Status = UsrStUnverified
    /\ \A p \in Calls :
          ( /\ RanToCompletion(p)
            /\ call[p].pre.minted
            /\ call[p].pre.mintToken = NilToken )
          => LET n == call[p].Username IN
             /\ call[p].branch = "update"
             /\ regStore[n].Status = UsrStVerified
             /\ {regStore[n].MintToken} = TokensNamed(n)
             /\ TokensNamed(n) = {m.Token : m \in call[p].pre.mintUsers}

C9_Witness ==
    \E p, q \in Calls :
        /\ CrashedBetweenCommits(q) /\ call[q].branch = "create"
        /\ call[p].pre # NULL /\ call[p].pre.minted
        /\ call[p].pre.status = UsrStUnverified
        /\ call[p].pre.mintToken = NilToken
        /\ RanToCompletion(p) /\ call[p].branch = "update"
        /\ regStore[call[p].Username].MintToken = MintTokenOf(q)

\* C10: in every committed state of the register store a user's MintToken is
\* set if and only if a call for that user has committed its mint
\* transaction and then its register transaction.
C10_TokenIffSagaCompleted ==
    \A n \in DOMAIN regStore :
        (regStore[n].MintToken # NilToken) <=> (n \in hist.sagaDone)

C10_Witness ==
    /\ \E n \in DOMAIN regStore : regStore[n].MintToken # NilToken
    /\ \E p \in Calls : call[p].pc = "failed" /\ call[p].mintCommitted = FALSE
                        /\ call[p].branch # "none"

\* The register commit of call p.
CommitsReg(p) == call[p].pc = "commitreg" /\ call'[p].pc = "done"

\* C11: the committed status of a register user never goes from Verified back
\* to Unverified, so it changes to Verified at most once, and it changes to
\* Verified only in the register commit of a call that presented the user's
\* secret.
C11_VerifiedOnceByOwner ==
    [][\A n \in DOMAIN regStore :
          /\ regStore[n].Status = UsrStVerified
                => regStore'[n].Status = UsrStVerified
          /\ (regStore[n].Status = UsrStUnverified
              /\ regStore'[n].Status = UsrStVerified)
                => \E p \in Calls :
                      /\ CommitsReg(p)
                      /\ call[p].Username = n
                      /\ call[p].Secret = regStore[n].Secret]_vars

C11_Witness ==
    \E p, q, w \in Calls :
        /\ p # q
        /\ RanToCompletion(p) /\ call[p].pre.status = UsrStUnverified
        /\ RanToCompletion(q) /\ call[q].pre.status = UsrStUnverified
        /\ call[w].pc = "failed" /\ call[w].Username = "alice"
        /\ call[w].Secret = "S2"
        /\ regStore["alice"].Status = UsrStVerified

\* The call ended without reaching its first commit: with an error, or
\* stopped with the process.
EndedUncommitted(c) ==
    c.pc \in {"failed", "crashed", "fatal"} /\ ~c.mintCommitted

\* C12: every call that returns an error has committed nothing, and so has
\* every call that stops before its mint commit: the step that ends it
\* changes no committed row and leaves neither of its transactions open, and
\* committed rows change only in the commit steps of calls, which no longer
\* return an error.
C12_ErrorCommitsNothing ==
    [][/\ \A p \in Calls :
             /\ call'[p].pc = "failed" => ~call'[p].mintCommitted
             /\ EndedUncommitted(call'[p])
                   => /\ call'[p].regTx = NULL
                      /\ call'[p].mintTx = NULL
                      /\ call[p].pc # call'[p].pc
                            => (regStore' = regStore /\ mintStore' = mintStore)
       /\ (regStore' # regStore \/ mintStore' # mintStore)
             => \E p \in Calls :
                   /\ call[p].pc \in {"commitmint", "commitreg"}
                   /\ call'[p].pc \in {"commitreg", "done"}]_vars

C12_Witness ==
    \E p \in Calls :
        /\ call[p].pc = "failed"
        /\ call[p].resp.http = 500
        /\ call[p].branch = "update"
        /\ call[p].user.Status = UsrStVerified
        /\ call[p].pre.status = UsrStUnverified
        /\ regStore[call[p].Username].Status = UsrStUnverified
        /\ \A m \in MintUsersNamed(call[p].Username) : m.Password = "old"

\* The creation of the mint user of call p fails in this step.
CreationFails(p) ==
    /\ call[p].pc = "mintwrite" /\ call[p].u = NULL
    /\ call'[p].pc \notin {"mintwrite", "savetoken", "crashed"}

\* C13: a failed creation of the mint user stops the service: the call ends
\* in the fatal stop without a response, no call is left running, the call
\* has committed neither transaction and holds none, no committed row
\* changes, and the stopped call never runs again.
C13_CreationFailureHalts ==
    [][\A p \in Calls :
          /\ CreationFails(p)
                => /\ call'[p].pc = "fatal"
                   /\ call'[p].resp = NoResp
                   /\ call'[p].branch = "none"
                   /\ ~call'[p].mintCommitted
                   /\ call'[p].regTx = NULL /\ call'[p].mintTx = NULL
                   /\ \A q \in Calls : ~InFlight(call'[q])
                   /\ regStore' = regStore /\ mintStore' = mintStore
          /\ call[p].pc = "fatal" => call'[p] = call[p]
          /\ call'[p].pc = "fatal" => (call[p].pc = "fatal" \/ CreationFails(p))]_vars

C13_Witness ==
    \E p, q \in Calls :
        /\ call[p].pc = "fatal" /\ call[p].cause = StoreError.code
        /\ call[p].user.Status = UsrStVerified
        /\ regStore[call[p].Username].Status = UsrStUnverified
        /\ MintUsersNamed(call[p].Username) = {}
        /\ call[q].pc = "crashed" /\ call[q].user # NULL

----------------------------------------------------------------------------
(* Further properties of the authentication gate, checked under SpecGate *)

----------------------------------------------------------------------------
(* Amount: a big.Int stored as its base-10 string *)

\* A big.Int is a sign and a magnitude of machine words, least significant
\* first, without leading zero words; zero is the empty magnitude.  WordBase
\* stands for the base of a machine word.
Norm(x) ==
    LET keep == {i \in 1..Len(x) : x[i] # 0}
    IN  IF keep = {} THEN <<>>
        ELSE SubSeq(x, 1, CHOOSE i \in keep : \A j \in keep : j <= i)

Magnitudes ==
    {x \in UNION {[1..n -> 0..(WordBase - 1)] : n \in 0..MaxWords} : Norm(x) = x}

Amounts ==
    {[neg |-> s, abs |-> x] : s \in BOOLEAN, x \in Magnitudes} \
        {[neg |-> TRUE, abs |-> <<>>]}

\* The number an Amount stands for.
RECURSIVE MagValue(_)
MagValue(x) == IF x = <<>> THEN 0 ELSE Head(x) + WordBase * MagValue(Tail(x))
Num(a) == IF a.neg THEN 0 - MagValue(a.abs) ELSE MagValue(a.abs)

\* The int64 range at the scale of WordBase: one word with its sign bit.
MinInt64 == 0 - (WordBase \div 2)
MaxInt64 == (WordBase \div 2) - 1

RECURSIVE ToWords(_)
ToWords(n) == IF n = 0 THEN <<>> ELSE <<n % WordBase>> \o ToWords(n \div WordBase)

\* x * m + c on magnitudes, word by word with carry.
RECURSIVE MulAddWW(_, _, _)
MulAddWW(x, m, c) ==
    IF x = <<>> THEN ToWords(c)
    ELSE LET t == Head(x) * m + c
         IN  <<t % WordBase>> \o MulAddWW(Tail(x), m, t \div WordBase)

\* x divided by the small divisor d: quotient words and remainder.
RECURSIVE DivW(_, _)
DivW(x, d) ==
    IF x = <<>> THEN [q |-> <<>>, r |-> 0]
    ELSE LET hi == DivW(Tail(x), d)
             cur == hi.r * WordBase + Head(x)
         IN  [q |-> <<cur \div d>> \o hi.q, r |-> cur % d]

DigitChars == <<"0", "1", "2", "3", "4", "5", "6", "7", "8", "9">>
IsDigit(ch) == \E d \in 1..10 : DigitChars[d] = ch
DigitValue(ch) == (CHOOSE d \in 1..10 : DigitChars[d] = ch) - 1

\* The decimal digits of a magnitude, most significant first.
RECURSIVE Utoa(_)
Utoa(x) ==
    IF x = <<>> THEN <<>>
    ELSE LET d == DivW(x, 10)
         IN  Utoa(Norm(d.q)) \o <<DigitChars[d.r + 1]>>

\* (*big.Int).String: the base-10 text, "-" first for a negative value.
String(a) ==
    IF a.abs = <<>> THEN <<"0">>
    ELSE (IF a.neg THEN <<"-">> ELSE <<>>) \o Utoa(a.abs)

RECURSIVE ScanDigits(_, _)
ScanDigits(s, acc) ==
    IF s = <<>> THEN acc
    ELSE ScanDigits(Tail(s), Norm(MulAddWW(acc, 10, DigitValue(Head(s)))))

\* (*big.Int).SetString(s, 10): an optional sign, then at least one digit and
\* nothing else; NULL when s is no such text.
SetString(s) ==
    LET signed == s # <<>> /\ Head(s) \in {"+", "-"}
        body == IF signed THEN Tail(s) ELSE s
    IN  IF body = <<>> \/ \E i \in 1..Len(body) : ~IsDigit(body[i])
        THEN NULL
        ELSE LET mag == ScanDigits(body, <<>>)
             IN  [neg |-> (signed /\ Head(s) = "-" /\ mag # <<>>), abs |-> mag]

\* (*big.Int).SetInt64.
SetInt64(v) == [neg |-> v < 0, abs |-> ToWords(IF v < 0 THEN 0 - v ELSE v)]

\* []byte(s) and string(b) over the characters an amount column can hold.
CharCodes ==
    [ch \in {"0", "1", "2", "3", "4", "5", "6", "7", "8", "9", "-", "+", "x"} |->
        IF IsDigit(ch) THEN 48 + DigitValue(ch)
        ELSE IF ch = "-" THEN 45 ELSE IF ch = "+" THEN 43 ELSE 120]
BytesOf(s) == [i \in 1..Len(s) |-> CharCodes[s[i]]]
StringOf(b) ==
    [i \in 1..Len(b) |-> CHOOSE ch \in DOMAIN CharCodes : CharCodes[ch] = b[i]]

DriverValue(type, val) == [type |-> type, val |-> val, own |-> FALSE]

\* Amount.Value: the value handed to the driver.
Value(a) == DriverValue("string", String(a))

\* Amount.Scan: the receiver after the call and whether an error is returned.
Scanned(a, err) == [amount |-> a, err |-> err]
OfText(a) == IF a = NULL THEN Scanned(NULL, TRUE) ELSE Scanned(a, FALSE)

ScanStringsOnly(src) ==
    IF src.type = "int64" THEN Scanned(SetInt64(src.val), FALSE)
    ELSE IF src.type = "string" THEN OfText(SetString(src.val))
    ELSE Scanned(NULL, TRUE)
Scan(src) ==
    IF src.type = "int64" THEN Scanned(SetInt64(src.val), FALSE)
    ELSE IF src.type = "bytes" THEN OfText(SetString(StringOf(src.val)))
    ELSE IF src.type = "string" THEN OfText(SetString(src.val))
    ELSE Scanned(NULL, TRUE)

\* Column values that did not come from Amount.Value.
ForeignTexts ==
    {<<>>, <<"x">>, <<"-">>, <<"+", "1">>, <<"-", "0">>, <<"0", "7">>, <<"1", "x">>}
ForeignColumns ==
    {DriverValue("int64", v) : v \in MinInt64..MaxInt64}
        \cup {DriverValue("string", t) : t \in ForeignTexts}
        \cup {DriverValue("bytes", BytesOf(t)) : t \in ForeignTexts}
        \cup {DriverValue("float64", 1)}

InitAmount ==
    /\ now = 0
    /\ ledger = {}
    /\ req = [r \in Reqs |-> IdleReq]
    /\ regStore = [n \in {"alice"} |-> RegisteredUser]
    /\ mintStore = {}
    /\ call = [p \in Calls |-> IdleCall]
    /\ hist = [sagaDone |-> {}, mintCommits |-> {}]
    /\ amount \in Amounts
    /\ column = NULL
    /\ scanned = NULL

\* The amount is written: Value gives the column its text.
AmountValue ==
    /\ column = NULL
    /\ column' = [Value(amount) EXCEPT !.own = TRUE]
    /\ UNCHANGED <<gateVars, sagaVars, amount, scanned>>

\* The driver hands a text column back as bytes.
DriverAsBytes ==
    /\ column # NULL /\ scanned = NULL
    /\ column.type = "string"
    /\ column' = [column EXCEPT !.type = "bytes", !.val = BytesOf(column.val)]
    /\ UNCHANGED <<gateVars, sagaVars, amount, scanned>>

\* The column was written by something else.
ForeignWrite ==
    /\ column = NULL
    /\ \E src \in ForeignColumns : column' = [src EXCEPT !.own = FALSE]
    /\ UNCHANGED <<gateVars, sagaVars, amount, scanned>>

\* The column is read back into a fresh Amount.
AmountScan ==
    /\ column # NULL /\ scanned = NULL
    /\ scanned' = Scan(column)
    /\ UNCHANGED <<gateVars, sagaVars, amount, column>>

NextAmount ==
    \/ AmountValue
    \/ DriverAsBytes
    \/ ForeignWrite
    \/ AmountScan

SpecAmount == InitAmount /\ [][NextAmount]_vars

\* C15: Scan of what Value gave for an Amount, as string or as bytes, returns
\* no error and yields an Amount of the same number, for negative values and
\* for values outside the int64 range too.
C15_ValueScanRoundTrip ==
    (scanned # NULL /\ column.own)
    => /\ ~scanned.err
       /\ Num(scanned.amount) = Num(amount)
       /\ scanned.amount \in Amounts

C15_Witness ==
    /\ scanned # NULL /\ column.own /\ column.type = "bytes"
    /\ amount.neg /\ Num(amount) < MinInt64
    /\ Num(scanned.amount) = Num(amount)

\* C16: the ledger holds at most one record per challenge, and a record once
\* inserted is never modified or removed.
C16_LedgerUniqueAndImmutable ==
    [][/\ ledger \subseteq ledger'
       /\ \A a, b \in ledger' : a.challenge = b.challenge => a = b]_vars

C16_Witness ==
    \E r, s \in Reqs :
        /\ Ended(r) /\ req[r].insert = "ok"
        /\ Ended(s) /\ req[s].insert = "duplicate"
        /\ req[s].challenge = req[r].challenge
        /\ req[s].address # req[r].address
        /\ Cardinality(ledger) = 1

\* C19: a record is inserted only by a request whose challenge check and
\* signature verification passed and whose lookup found no record; a step
\* that ends a request at the check, the verification or the lookup, Failed
\* or Skipped, leaves the ledger as it was.
RecordOf(q) ==
    NewAuthentication(q.method, q.path, q.challenge, q.address, q.signature)

C19_InsertOnlyAfterAllChecks ==
    [][/\ \A a \in ledger' \ ledger :
             \E r \in Reqs :
                 /\ req[r].pc = "create" /\ req'[r].pc = "done"
                 /\ req[r].lookup = "absent"
                 /\ a = RecordOf(req[r])
                 /\ \E t \in 0..now : CheckChallenge(a.challenge, t) = NoError
                 /\ VerifyChallenge(a.challenge, a.address, a.signature) = NoError
                 /\ \A b \in ledger : b.challenge # a.challenge
       /\ \A r \in Reqs :
             (req[r].pc # "done" /\ req'[r].pc = "done" /\ req'[r].insert = "none")
                => /\ ledger' = ledger
                   /\ req'[r].withStatus.Status \in {AutStFailed, AutStSkipped}
       /\ \A r \in Reqs : req'[r].pc = "create" => req'[r].lookup = "absent"]_vars

\* A request failed the signature verification and the same challenge was
\* redeemed afterwards.
C19_Witness ==
    \E r, s \in Reqs :
        /\ r < s
        /\ Ended(r) /\ ~PassedChecks(r)
        /\ VerifyChallenge(req[r].challenge, req[r].address, req[r].signature) # NoError
        /\ req[s].challenge = req[r].challenge
        /\ Ended(s) /\ Outcome(s) = AutStSucceeded
        /\ ledger = {RecordOf(req[s])}

\* C20 (as claimed): every request that has ended, Succeeded, Skipped or
\* Failed, has written a log entry holding the status, the claimed address,
\* the challenge and the signature.
C20_EveryEndLogsAllFields ==
    \A r \in Reqs :
        Ended(r) => {"status", "address", "challenge", "signature"} \subseteq req[r].log

----------------------------------------------------------------------------
(* Further properties of the provisioning saga, checked under SpecSaga *)

\* C17: a committed MintToken always names a mint user that is committed in
\* the mint store under the same username, and the register commit that
\* publishes a token comes from a call whose mint commit is already done.
TokenResolves(store, minted) ==
    \A n \in DOMAIN store :
        store[n].MintToken # NilToken
            => \E m \in minted : m.Token = store[n].MintToken /\ m.Username = n

C17_TokenRefersToCommittedMintUser ==
    [][/\ TokenResolves(regStore, mintStore)'
       /\ \A n \in DOMAIN regStore :
             regStore'[n].MintToken # regStore[n].MintToken
                => /\ TokenResolves(regStore', mintStore)
                   /\ \E p \in Calls :
                         /\ call[p].pc = "commitreg" /\ call'[p].pc = "done"
                         /\ call[p].mintCommitted
                         /\ call[p].mintTx = NULL]_vars

\* A token is published although one call died after its mint commit and
\* another ran beside the publishing call.
C17_Witness ==
    \E p, q \in Calls :
        /\ p # q
        /\ call[p].pc = "crashed" /\ call[p].mintCommitted
        /\ call[q].pc = "done" /\ call[q].mintCommitted
        /\ regStore["alice"].MintToken # NilToken
        /\ TokenResolves(regStore, mintStore)

\* C18: calls that run side by side for a register user that starts without
\* MintToken and without mint user never leave two mint users of that
\* username and never meet the uniqueness conflict that ends the create
\* branch in the fatal stop (a creation the store itself fails still halts
\* the service); once a call has finished, the MintToken is the token of the
\* single mint user.
StartedUnprovisioned ==
    \A m \in mintStore : m.Token # ForeignMintUser.Token

====
